---------------------------- MODULE Spec2Model ----------------------------
(***************************************************************************)
(* A state-machine model of the WebRTC class of the SalaryMan client       *)
(* (src/client/src/web/WebRTC.ts, first class of the file, lines 6-180):   *)
(* identifier sanitization, media acquisition, the two connection          *)
(* registries, the video grid and the toggle buttons.                      *)
(*                                                                         *)
(* Strings are sequences of one-character strings.  A MediaConnection is   *)
(* named by the order of its creation; calls holds the open ones and       *)
(* closedCalls the names of those call.close() was invoked on.  The video  *)
(* element created together with a connection carries its name, and        *)
(* MyVideo is the local self-view element.  A MediaStream delivered by     *)
(* navigator.mediaDevices.getUserMedia is named by the order of delivery;  *)
(* tracks holds the tracks of the stream this.myStream refers to.          *)
(***************************************************************************)
EXTENDS Integers, Sequences, FiniteSets, TLC

(***************************************************************************)
(* Bounds of the model.                                                    *)
(***************************************************************************)
\* longest identifier handed to the sanitizer in SpecSanitize
MaxIdLen == 3
\* media connections (placed or received) created in one run
MaxCalls == 2
\* calls of navigator.mediaDevices.getUserMedia in one run
MaxRequests == 2
\* 'stream' events delivered by the open media connections
MaxStreamEvents == 2
\* expiries of a waitForStream timer that find no local stream
MaxTicks == 2

(***************************************************************************)
(* Characters and identifiers.                                             *)
(***************************************************************************)
Digits == {"0", "7"}
LowerCase == {"a", "g", "z"}
UpperCase == {"A", "G", "Z"}
\* "U+017F" is the long s, whose upper case is the ASCII letter S
OtherChars == {"-", "_", "@", "U+017F"}
Alphabet == Digits \cup LowerCase \cup UpperCase \cup OtherChars

\* String.prototype.toUpperCase on one character
ToUpperCase(ch) ==
  CASE ch = "a" -> "A"
    [] ch = "g" -> "G"
    [] ch = "z" -> "Z"
    [] ch = "U+017F" -> "S"
    [] OTHER -> ch

IsAscii(ch) == ch # "U+017F"

\* Canonicalize of a RegExp with the i flag and without the u flag: the
\* upper case of the character, unless that maps a non-ASCII character to
\* an ASCII one.
Canonicalize(ch) ==
  LET cu == ToUpperCase(ch) IN
  IF ~IsAscii(ch) /\ IsAscii(cu) THEN ch ELSE cu

\* the characters listed by the class ranges 0-9 and a-z
ClassRanges == Digits \cup LowerCase

\* the characters /[0-9a-z]/i matches: those whose canonical form is the
\* canonical form of a character of the ranges
ClassMatches ==
  {ch \in Alphabet : \E a \in ClassRanges : Canonicalize(a) = Canonicalize(ch)}

\* /[^0-9a-z]/i matches ch
MatchesInvalid(ch) == ch \notin ClassMatches

\* mutant: the regular expression without its i flag
replaceInvalidId_NoIgnoreCase(userId) ==
  [i \in 1..Len(userId) |-> IF userId[i] \notin ClassRanges THEN "G" ELSE userId[i]]

\* userId.replace(/[^0-9a-z]/gi, 'G')
replaceInvalidId(userId) ==
  [i \in 1..Len(userId) |-> IF MatchesInvalid(userId[i]) THEN "G" ELSE userId[i]]

RECURSIVE StringsOfLen(_)
StringsOfLen(n) ==
  IF n = 0 THEN {<<>>}
  ELSE {Append(s, ch) : s \in StringsOfLen(n - 1), ch \in Alphabet}

Strings == UNION {StringsOfLen(n) : n \in 0..MaxIdLen}

\* user ids of the space's players and peer ids carried by incoming calls
UserIds == {<<"a", "7">>, <<"a", "-", "7">>}

(***************************************************************************)
(* State.                                                                  *)
(***************************************************************************)
VARIABLES
  isSecureContext,   \* window.isSecureContext
  myStream,          \* this.myStream: NoStream or a stream
  tracks,            \* myStream -> enabled flag of its first audio and video track
  streamsAcquired,   \* number of streams getUserMedia has delivered
  pending,           \* getUserMedia promises not yet settled, by alertOnError
  mediaRequests,     \* constraints of every navigator.mediaDevices.getUserMedia call
  alertOpen,         \* the message of the window.alert dialog that is open
  videoConnected,    \* store: UserStore.videoConnected
  networkVideoConnected, \* number of network.videoConnected() calls
  peers,             \* this.peers
  onCalledPeers,     \* this.onCalledPeers
  calls,             \* the open media connections
  callsCreated,      \* number of media connections created so far
  closedCalls,       \* the media connections closed by call.close()
  srcObject,         \* video element of a registry or MyVideo -> its srcObject
  videoGrid,         \* children of the video grid
  buttonGrid,        \* children of the button grid, in document order
  startButton,       \* the #start-video button is in the document
  sanIn,             \* SpecSanitize: the identifier handed to replaceInvalidId
  sanOut,            \* SpecSanitize: its result
  sanAgain,          \* SpecSanitize: the result of sanitizing sanOut
  sanPc,             \* SpecSanitize: position
  hasMediaDevices,   \* navigator.mediaDevices is defined
  attempts,          \* part_000, first class: the getUserMedia calls, in order
  errorBoxes,        \* part_000, first class: the .media-error-box elements
  closeEvents,       \* part_000, second class: 'close' events not yet delivered
  waiting,           \* part_000, third class: calls with an armed waitForStream timer
  timerTicks         \* part_000, third class: timer ticks that found no stream

envVars == <<isSecureContext>>
mediaVars == <<myStream, tracks, streamsAcquired, pending, mediaRequests, alertOpen,
               videoConnected, networkVideoConnected>>
registryVars == <<peers, onCalledPeers, calls, callsCreated, closedCalls>>
sanVars == <<sanIn, sanOut, sanAgain, sanPc>>
\* the state only the other classes of the repository have
variantVars == <<hasMediaDevices, attempts, errorBoxes, closeEvents, waiting,
                 timerTicks>>
otherVars == <<sanVars, variantVars>>
vars == <<isSecureContext, myStream, tracks, streamsAcquired,
          pending, mediaRequests, alertOpen, videoConnected,
          networkVideoConnected, peers, onCalledPeers, calls, callsCreated,
          closedCalls, srcObject,
          videoGrid, buttonGrid, startButton, sanIn, sanOut, sanAgain, sanPc,
          hasMediaDevices, attempts, errorBoxes, closeEvents, waiting,
          timerTicks>>

\* document.querySelector('.video-grid') and ('.button-grid') find the two
\* containers of the client's page
hasVideoGrid == TRUE

hasButtonGrid == TRUE

NoStream == 0
MyVideo == 0
RemoteStream == -1

EmptyMap == [k \in {} |-> 0]
MapSet(m, k, v) == [x \in DOMAIN m \cup {k} |-> IF x = k THEN v ELSE m[x]]
MapDelete(m, k) == [x \in DOMAIN m \ {k} |-> m[x]]

\* The children of the video grid are a bag of video elements: how often
\* each element occurs among the children (no handler reads their order).
Count(children, el) == IF el \in DOMAIN children THEN children[el] ELSE 0

\* mutant: an append that inserts a further copy of a child
DomAppend_Duplicating(children, el) == MapSet(children, el, Count(children, el) + 1)

\* ParentNode.append of one element: an element that is already a child is
\* moved to the end, it is not duplicated
DomAppend(children, el) == MapSet(children, el, 1)

\* ChildNode.remove()
DomRemove(children, el) == MapDelete(children, el)


(***************************************************************************)
(* Media connections, streams and buttons.                                 *)
(***************************************************************************)
\* a Peer.MediaConnection: dir is "out" (myPeer.call) or "in" (a 'call'
\* event); stream is the local stream handed to call / answer (NoStream for
\* undefined); answered: call.answer was invoked; streams: the 'stream'
\* events delivered so far
MediaConnection(dir, peer, stream, answered) ==
  [dir |-> dir, peer |-> peer, stream |-> stream, answered |-> answered,
   streams |-> 0]

RECURSIVE SumStreams(_)
SumStreams(cs) ==
  IF cs = {} THEN 0
  ELSE LET c == CHOOSE x \in cs : TRUE IN calls[c].streams + SumStreams(cs \ {c})

\* the 'stream' events the open connections have delivered
StreamEvents == SumStreams(DOMAIN calls)

\* call.close()
CloseCall(c) ==
  /\ calls' = MapDelete(calls, c)
  /\ closedCalls' = closedCalls \cup {c}

\* the value kept in a registry: { call, video }
Entry(c) == [call |-> c, video |-> c]

\* a stream of getUserMedia({ video: true, audio: true }): its first audio
\* and its first video track, both enabled
NewStreamTracks == [audio |-> TRUE, video |-> TRUE]

\* the constraints object of the request
Constraints == [video |-> TRUE, audio |-> TRUE]

\* mutant: the two labels of the audio button exchanged
AudioLabel_Exchanged(enabled) == IF enabled THEN "Unmute" ELSE "Mute"

AudioLabel(enabled) == IF enabled THEN "Mute" ELSE "Unmute"

VideoLabel(enabled) == IF enabled THEN "Video Off" ELSE "Video On"

\* the calls an object of a registry refers to, and the handlers they carry
HasStreamHandler(c) ==
  calls[c].dir = "out" \/ calls[c].answered

(***************************************************************************)
(* Init: the state after the constructor (lines 16-33).                    *)
(***************************************************************************)
SanIdle ==
  /\ sanIn = <<>>
  /\ sanOut = <<>>
  /\ sanAgain = <<>>
  /\ sanPc = "idle"

\* the state of the other classes, where it is not in use
VariantIdle ==
  /\ hasMediaDevices = TRUE
  /\ attempts = <<>>
  /\ errorBoxes = <<>>
  /\ closeEvents = EmptyMap
  /\ waiting = {}
  /\ timerTicks = 0

Init ==
  /\ isSecureContext \in BOOLEAN
  /\ myStream = NoStream
  /\ tracks = EmptyMap
  /\ streamsAcquired = 0
  /\ pending = [a \in BOOLEAN |-> 0]
  /\ mediaRequests = <<>>
  /\ alertOpen = "none"
  /\ videoConnected = FALSE
  /\ networkVideoConnected = 0
  /\ peers = EmptyMap
  /\ onCalledPeers = EmptyMap
  /\ calls = EmptyMap
  /\ callsCreated = 0
  /\ closedCalls = {}
  /\ srcObject = EmptyMap
  /\ videoGrid = EmptyMap
  /\ buttonGrid = <<>>
  /\ startButton = TRUE
  /\ SanIdle
  /\ VariantIdle

(***************************************************************************)
(* The handlers.                                                           *)
(***************************************************************************)
\* window.alert blocks the page's event loop until the dialog is dismissed:
\* no handler runs while a dialog is open
NoAlert == alertOpen = "none"

\* the user dismisses the dialog, and the handler that opened it returns
DismissAlert ==
  /\ ~NoAlert
  /\ alertOpen' = "none"
  /\ UNCHANGED <<envVars, myStream, tracks, streamsAcquired, pending,
                 mediaRequests, videoConnected, networkVideoConnected,
                 registryVars, srcObject, videoGrid, buttonGrid, startButton,
                 otherVars>>

\* addVideoStream(video, stream): the new srcObject map and grid children
addVideoStreamSrc(video, stream) == MapSet(srcObject, video, stream)

addVideoStreamGrid(video) ==
  IF hasVideoGrid THEN DomAppend(videoGrid, video) ELSE videoGrid

\* mutant: the old buttons are not cleared
setUpButtons_Appending ==
  buttonGrid \o << [kind |-> "audio", label |-> "Mute"],
                   [kind |-> "video", label |-> "Video Off"] >>

\* setUpButtons(): the children of the button grid afterwards
setUpButtons ==
  IF ~hasButtonGrid THEN buttonGrid
  ELSE << [kind |-> "audio", label |-> "Mute"],
          [kind |-> "video", label |-> "Video Off"] >>

\* myPeer.on('call', ...): an incoming call whose call.peer is peer
OnCall(peer) ==
  /\ NoAlert
  /\ callsCreated < MaxCalls
  /\ callsCreated' = callsCreated + 1
  /\ IF peer \notin DOMAIN onCalledPeers
       THEN /\ calls' = MapSet(calls, callsCreated + 1,
                                MediaConnection("in", peer, myStream, TRUE))
            /\ onCalledPeers' = MapSet(onCalledPeers, peer, Entry(callsCreated + 1))
       ELSE UNCHANGED <<calls, onCalledPeers>>
  /\ UNCHANGED <<envVars, mediaVars, peers, closedCalls, srcObject, videoGrid,
                 buttonGrid, startButton, otherVars>>

\* getUserMedia(alertOnError), without the frame of the start button
getUserMediaBody(alertOnError) ==
  IF ~isSecureContext
    THEN /\ alertOpen' = "https"
         /\ UNCHANGED <<pending, mediaRequests>>
    ELSE /\ Len(mediaRequests) < MaxRequests
         /\ mediaRequests' = Append(mediaRequests, Constraints)
         /\ pending' = [pending EXCEPT ![alertOnError] = @ + 1]
         /\ UNCHANGED alertOpen

getUserMedia(alertOnError) ==
  /\ NoAlert
  /\ getUserMediaBody(alertOnError)
  /\ UNCHANGED <<envVars, myStream, tracks, streamsAcquired, videoConnected, networkVideoConnected,
                 registryVars, srcObject, videoGrid, buttonGrid,
                 startButton, otherVars>>

\* the .then callback of the request
GetUserMediaResolved(alertOnError) ==
  /\ NoAlert
  /\ pending[alertOnError] > 0
  /\ pending' = [pending EXCEPT ![alertOnError] = @ - 1]
  /\ streamsAcquired' = streamsAcquired + 1
  /\ myStream' = streamsAcquired + 1
  /\ tracks' = MapSet(EmptyMap, streamsAcquired + 1, NewStreamTracks)
  /\ srcObject' = addVideoStreamSrc(MyVideo, streamsAcquired + 1)
  /\ videoGrid' = addVideoStreamGrid(MyVideo)
  /\ buttonGrid' = setUpButtons
  /\ videoConnected' = TRUE
  /\ networkVideoConnected' = networkVideoConnected + 1
  /\ UNCHANGED <<envVars, mediaRequests, alertOpen, registryVars,
                 startButton, otherVars>>

ErrorNames == {"NotAllowedError", "NotFoundError", "NotReadableError"}

AlertFor(errorName) ==
  CASE errorName = "NotAllowedError" -> "allow"
    [] errorName = "NotFoundError" -> "notFound"
    [] OTHER -> "blocked"

\* mutant: the rejection handler falls back to a request for audio only
GetUserMediaRejected_Fallback(alertOnError, errorName) ==
  /\ NoAlert
  /\ pending[alertOnError] > 0
  /\ mediaRequests' = Append(mediaRequests, [video |-> FALSE, audio |-> TRUE])
  /\ UNCHANGED <<envVars, myStream, tracks, streamsAcquired, pending, alertOpen,
                 videoConnected, networkVideoConnected, registryVars, srcObject,
                 videoGrid, buttonGrid, startButton, otherVars>>

\* mutant: the rejection handler reports the video as connected
GetUserMediaRejected_Reports(alertOnError, errorName) ==
  /\ NoAlert
  /\ pending[alertOnError] > 0
  /\ pending' = [pending EXCEPT ![alertOnError] = @ - 1]
  /\ alertOpen' = IF alertOnError THEN AlertFor(errorName) ELSE "none"
  /\ videoConnected' = TRUE
  /\ networkVideoConnected' = networkVideoConnected + 1
  /\ UNCHANGED <<envVars, myStream, tracks, streamsAcquired, mediaRequests,
                 registryVars, srcObject, videoGrid, buttonGrid, startButton,
                 otherVars>>

\* the .catch callback of the request
GetUserMediaRejected(alertOnError, errorName) ==
  /\ NoAlert
  /\ pending[alertOnError] > 0
  /\ pending' = [pending EXCEPT ![alertOnError] = @ - 1]
  /\ alertOpen' = IF alertOnError THEN AlertFor(errorName) ELSE "none"
  /\ UNCHANGED <<envVars, myStream, tracks, streamsAcquired, mediaRequests, videoConnected,
                 networkVideoConnected, registryVars, srcObject, videoGrid,
                 buttonGrid, startButton, otherVars>>

\* connectToNewUser(userId): the content of this.peers afterwards, from its
\* content p, the local stream ms and the number of connections created
connectToNewUserPeers(p, ms, created, userId) ==
  LET sanitizedId == replaceInvalidId(userId) IN
  IF ms # NoStream /\ sanitizedId \notin DOMAIN p
    THEN MapSet(p, sanitizedId, Entry(created + 1))
    ELSE p

\* mutant: the entry is not deleted from the map
deleteVideoStreamPeers_Kept(p, userId) == p

\* deleteVideoStream(userId): the content of this.peers afterwards
deleteVideoStreamPeers(p, userId) == MapDelete(p, replaceInvalidId(userId))

\* mutant: no check of this.peers.has(sanitizedId)
connectToNewUser_NoHasCheck(userId) ==
  /\ NoAlert
  /\ myStream # NoStream
  /\ callsCreated < MaxCalls
  /\ callsCreated' = callsCreated + 1
  /\ calls' = MapSet(calls, callsCreated + 1,
                 MediaConnection("out", replaceInvalidId(userId), myStream, FALSE))
  /\ peers' = MapSet(peers, replaceInvalidId(userId), Entry(callsCreated + 1))
  /\ UNCHANGED <<envVars, mediaVars, onCalledPeers, closedCalls, srcObject, videoGrid,
                 buttonGrid, startButton, otherVars>>

\* mutant: no check of this.myStream
connectToNewUser_NoStreamCheck(userId) ==
  /\ NoAlert
  /\ replaceInvalidId(userId) \notin DOMAIN peers
  /\ callsCreated < MaxCalls
  /\ callsCreated' = callsCreated + 1
  /\ calls' = MapSet(calls, callsCreated + 1,
                 MediaConnection("out", replaceInvalidId(userId), myStream, FALSE))
  /\ peers' = MapSet(peers, replaceInvalidId(userId), Entry(callsCreated + 1))
  /\ UNCHANGED <<envVars, mediaVars, onCalledPeers, closedCalls, srcObject, videoGrid,
                 buttonGrid, startButton, otherVars>>

\* connectToNewUser(userId)
connectToNewUser(userId) ==
  /\ NoAlert
  /\ IF myStream # NoStream
       THEN LET sanitizedId == replaceInvalidId(userId) IN
            IF sanitizedId \notin DOMAIN peers
              THEN /\ callsCreated < MaxCalls
                   /\ callsCreated' = callsCreated + 1
                   /\ calls' = MapSet(calls, callsCreated + 1,
                                  MediaConnection("out", sanitizedId, myStream, FALSE))
                   /\ peers' = connectToNewUserPeers(peers, myStream, callsCreated, userId)
              ELSE UNCHANGED <<calls, callsCreated, peers>>
       ELSE UNCHANGED <<calls, callsCreated, peers>>
  /\ UNCHANGED <<envVars, mediaVars, onCalledPeers, closedCalls, srcObject, videoGrid,
                 buttonGrid, startButton, otherVars>>

\* call.on('stream', ...) of a placed or an answered call
OnStream(c) ==
  /\ NoAlert
  /\ c \in DOMAIN calls
  /\ HasStreamHandler(c)
  /\ StreamEvents < MaxStreamEvents
  /\ calls' = [calls EXCEPT ![c].streams = @ + 1]
  /\ srcObject' = addVideoStreamSrc(Entry(c).video, RemoteStream)
  /\ videoGrid' = addVideoStreamGrid(Entry(c).video)
  /\ UNCHANGED <<envVars, mediaVars, peers, onCalledPeers,
                 callsCreated, closedCalls, buttonGrid, startButton, otherVars>>

\* deleteVideoStream(userId)
deleteVideoStream(userId) ==
  /\ NoAlert
  /\ LET sanitizedId == replaceInvalidId(userId) IN
     IF sanitizedId \in DOMAIN peers
       THEN LET peer == peers[sanitizedId] IN
            /\ CloseCall(peer.call)
            /\ videoGrid' = DomRemove(videoGrid, peer.video)
            /\ srcObject' = MapDelete(srcObject, peer.video)
            /\ peers' = deleteVideoStreamPeers(peers, userId)
       ELSE UNCHANGED <<calls, closedCalls, videoGrid, srcObject, peers>>
  /\ UNCHANGED <<envVars, mediaVars, onCalledPeers, callsCreated,
                 buttonGrid, startButton, otherVars>>

\* mutant: the delete of an inbound connection also drops the outbound entry
\* of the id
deleteOnCalledVideoStream_BothRegistries(userId) ==
  /\ NoAlert
  /\ LET sanitizedId == replaceInvalidId(userId) IN
     /\ sanitizedId \in DOMAIN onCalledPeers
     /\ CloseCall(onCalledPeers[sanitizedId].call)
     /\ videoGrid' = DomRemove(videoGrid, onCalledPeers[sanitizedId].video)
     /\ srcObject' = MapDelete(srcObject, onCalledPeers[sanitizedId].video)
     /\ onCalledPeers' = MapDelete(onCalledPeers, sanitizedId)
     /\ peers' = MapDelete(peers, sanitizedId)
  /\ UNCHANGED <<envVars, mediaVars, callsCreated, buttonGrid, startButton, otherVars>>

\* deleteOnCalledVideoStream(userId)
deleteOnCalledVideoStream(userId) ==
  /\ NoAlert
  /\ LET sanitizedId == replaceInvalidId(userId) IN
     IF sanitizedId \in DOMAIN onCalledPeers
       THEN LET onCalledPeer == onCalledPeers[sanitizedId] IN
            /\ CloseCall(onCalledPeer.call)
            /\ videoGrid' = DomRemove(videoGrid, onCalledPeer.video)
            /\ srcObject' = MapDelete(srcObject, onCalledPeer.video)
            /\ onCalledPeers' = MapDelete(onCalledPeers, sanitizedId)
       ELSE UNCHANGED <<calls, closedCalls, videoGrid, srcObject, onCalledPeers>>
  /\ UNCHANGED <<envVars, mediaVars, peers, callsCreated,
                 buttonGrid, startButton, otherVars>>

\* the click listener of the audio button (lines 145-151): the tracks and
\* the button grid afterwards, for the button at position i
AudioClickTracks(trk, ms) ==
  IF ms # NoStream THEN [trk EXCEPT ![ms].audio = ~@] ELSE trk

AudioClickButtons(btns, trk, ms, i) ==
  IF ms # NoStream
    THEN [btns EXCEPT ![i].label = AudioLabel(AudioClickTracks(trk, ms)[ms].audio)]
    ELSE btns

\* the click listener of the video button (lines 155-161)
VideoClickTracks(trk, ms) ==
  IF ms # NoStream THEN [trk EXCEPT ![ms].video = ~@] ELSE trk

VideoClickButtons(btns, trk, ms, i) ==
  IF ms # NoStream
    THEN [btns EXCEPT ![i].label = VideoLabel(VideoClickTracks(trk, ms)[ms].video)]
    ELSE btns

AudioButtonClick(i) ==
  /\ NoAlert
  /\ i \in 1..Len(buttonGrid)
  /\ buttonGrid[i].kind = "audio"
  /\ tracks' = AudioClickTracks(tracks, myStream)
  /\ buttonGrid' = AudioClickButtons(buttonGrid, tracks, myStream, i)
  /\ UNCHANGED <<envVars, myStream, streamsAcquired, pending, mediaRequests,
                 alertOpen, videoConnected, networkVideoConnected, registryVars,
                 srcObject, videoGrid, startButton, otherVars>>

VideoButtonClick(i) ==
  /\ NoAlert
  /\ i \in 1..Len(buttonGrid)
  /\ buttonGrid[i].kind = "video"
  /\ tracks' = VideoClickTracks(tracks, myStream)
  /\ buttonGrid' = VideoClickButtons(buttonGrid, tracks, myStream, i)
  /\ UNCHANGED <<envVars, myStream, streamsAcquired, pending, mediaRequests,
                 alertOpen, videoConnected, networkVideoConnected, registryVars,
                 srcObject, videoGrid, startButton, otherVars>>

\* the click listener of the start button (lines 173-176)
StartButtonClick ==
  /\ NoAlert
  /\ startButton
  /\ getUserMediaBody(TRUE)
  /\ startButton' = FALSE
  /\ UNCHANGED <<envVars, myStream, tracks, streamsAcquired, videoConnected, networkVideoConnected,
                 registryVars, srcObject, videoGrid, buttonGrid,
                 otherVars>>

Next ==
  \/ \E peer \in UserIds : OnCall(peer)
  \/ \E alertOnError \in BOOLEAN : getUserMedia(alertOnError)
  \/ \E alertOnError \in BOOLEAN : GetUserMediaResolved(alertOnError)
  \/ \E alertOnError \in BOOLEAN, errorName \in ErrorNames :
       GetUserMediaRejected(alertOnError, errorName)
  \/ \E userId \in UserIds : connectToNewUser(userId)
  \/ \E c \in 1..MaxCalls : OnStream(c)
  \/ \E userId \in UserIds : deleteVideoStream(userId)
  \/ \E userId \in UserIds : deleteOnCalledVideoStream(userId)
  \/ \E i \in 1..2 : AudioButtonClick(i)
  \/ \E i \in 1..2 : VideoButtonClick(i)
  \/ StartButtonClick
  \/ DismissAlert

Spec == Init /\ [][Next]_vars

(***************************************************************************)
(* SpecSanitize: replaceInvalidId applied to every identifier of at most   *)
(* MaxIdLen characters, and once more to its own result.                   *)
(***************************************************************************)
mainVars == <<isSecureContext, myStream, tracks, streamsAcquired,
              pending, mediaRequests, alertOpen, videoConnected,
              networkVideoConnected, peers, onCalledPeers, calls, callsCreated,
          closedCalls, srcObject,
              videoGrid, buttonGrid, startButton>>

InitSanitize ==
  /\ isSecureContext = TRUE
  /\ myStream = NoStream
  /\ tracks = EmptyMap
  /\ streamsAcquired = 0
  /\ pending = [a \in BOOLEAN |-> 0]
  /\ mediaRequests = <<>>
  /\ alertOpen = "none"
  /\ videoConnected = FALSE
  /\ networkVideoConnected = 0
  /\ peers = EmptyMap
  /\ onCalledPeers = EmptyMap
  /\ calls = EmptyMap
  /\ callsCreated = 0
  /\ closedCalls = {}
  /\ srcObject = EmptyMap
  /\ videoGrid = EmptyMap
  /\ buttonGrid = <<>>
  /\ startButton = TRUE
  /\ sanIn \in Strings
  /\ sanOut = <<>>
  /\ sanAgain = <<>>
  /\ sanPc = "called"
  /\ VariantIdle

\* const sanitizedId = this.replaceInvalidId(userId)
Sanitize ==
  /\ sanPc = "called"
  /\ sanOut' = replaceInvalidId(sanIn)
  /\ sanPc' = "sanitized"
  /\ UNCHANGED <<mainVars, sanIn, sanAgain, variantVars>>

\* the sanitized id handed to replaceInvalidId again
SanitizeAgain ==
  /\ sanPc = "sanitized"
  /\ sanAgain' = replaceInvalidId(sanOut)
  /\ sanPc' = "resanitized"
  /\ UNCHANGED <<mainVars, sanIn, sanOut, variantVars>>

NextSanitize == Sanitize \/ SanitizeAgain

SpecSanitize == InitSanitize /\ [][NextSanitize]_vars

(***************************************************************************)
(* SpecB: media acquisition and the buttons of the second class of         *)
(* src/client/src/web/WebRTC.ts (lines 187-363), run in a browser.  Its    *)
(* registry handlers are those of the first class, line for line.          *)
(***************************************************************************)
\* the state after a constructor, but for the environment
Constructed ==
  /\ myStream = NoStream
  /\ tracks = EmptyMap
  /\ streamsAcquired = 0
  /\ pending = [a \in BOOLEAN |-> 0]
  /\ mediaRequests = <<>>
  /\ alertOpen = "none"
  /\ videoConnected = FALSE
  /\ networkVideoConnected = 0
  /\ peers = EmptyMap
  /\ onCalledPeers = EmptyMap
  /\ calls = EmptyMap
  /\ callsCreated = 0
  /\ closedCalls = {}
  /\ srcObject = EmptyMap
  /\ videoGrid = EmptyMap
  /\ buttonGrid = <<>>
  /\ SanIdle
  /\ attempts = <<>>
  /\ errorBoxes = <<>>
  /\ closeEvents = EmptyMap
  /\ waiting = {}
  /\ timerTicks = 0

InitB ==
  /\ isSecureContext \in BOOLEAN
  /\ hasMediaDevices \in BOOLEAN
  /\ startButton = TRUE
  /\ Constructed

\* mutant: no check of window.isSecureContext
getUserMediaBodyB_NoSecureCheck(alertOnError) ==
  IF ~hasMediaDevices
    THEN UNCHANGED <<alertOpen, pending, mediaRequests>>
    ELSE /\ Len(mediaRequests) < MaxRequests
         /\ mediaRequests' = Append(mediaRequests, Constraints)
         /\ pending' = [pending EXCEPT ![alertOnError] = @ + 1]
         /\ UNCHANGED alertOpen

\* getUserMedia(alertOnError) of the second class (lines 240-278), without
\* the frame
getUserMediaBodyB(alertOnError) ==
  IF ~hasMediaDevices
    THEN UNCHANGED <<alertOpen, pending, mediaRequests>>
    ELSE IF ~isSecureContext
      THEN /\ alertOpen' = "https"
           /\ UNCHANGED <<pending, mediaRequests>>
      ELSE /\ Len(mediaRequests) < MaxRequests
           /\ mediaRequests' = Append(mediaRequests, Constraints)
           /\ pending' = [pending EXCEPT ![alertOnError] = @ + 1]
           /\ UNCHANGED alertOpen

getUserMediaB(alertOnError) ==
  /\ NoAlert
  /\ getUserMediaBodyB(alertOnError)
  /\ UNCHANGED <<envVars, myStream, tracks, streamsAcquired, videoConnected,
                 networkVideoConnected, registryVars, srcObject, videoGrid,
                 buttonGrid, startButton, otherVars>>

\* setUpButtons() of the second class (lines 326-347), called with
\* this.myStream = ms
setUpButtonsB(ms) ==
  IF ~hasButtonGrid \/ ms = NoStream THEN buttonGrid
  ELSE << [kind |-> "audio", label |-> "Mute"],
          [kind |-> "video", label |-> "Video Off"] >>

\* the .then callback of the request (lines 254-265)
GetUserMediaResolvedB(alertOnError) ==
  /\ NoAlert
  /\ pending[alertOnError] > 0
  /\ pending' = [pending EXCEPT ![alertOnError] = @ - 1]
  /\ streamsAcquired' = streamsAcquired + 1
  /\ myStream' = streamsAcquired + 1
  /\ tracks' = MapSet(EmptyMap, streamsAcquired + 1, NewStreamTracks)
  /\ srcObject' = addVideoStreamSrc(MyVideo, streamsAcquired + 1)
  /\ videoGrid' = addVideoStreamGrid(MyVideo)
  /\ buttonGrid' = setUpButtonsB(streamsAcquired + 1)
  /\ videoConnected' = TRUE
  /\ networkVideoConnected' = networkVideoConnected + 1
  /\ UNCHANGED <<envVars, mediaRequests, alertOpen, registryVars,
                 startButton, otherVars>>

\* the click listeners of the two buttons (lines 332-336 and 340-344)
AudioButtonClickB(i) ==
  /\ NoAlert
  /\ i \in 1..Len(buttonGrid)
  /\ buttonGrid[i].kind = "audio"
  /\ tracks' = [tracks EXCEPT ![myStream].audio = ~@]
  /\ buttonGrid' = [buttonGrid EXCEPT ![i].label = AudioLabel(~tracks[myStream].audio)]
  /\ UNCHANGED <<envVars, myStream, streamsAcquired, pending, mediaRequests,
                 alertOpen, videoConnected, networkVideoConnected, registryVars,
                 srcObject, videoGrid, startButton, otherVars>>

VideoButtonClickB(i) ==
  /\ NoAlert
  /\ i \in 1..Len(buttonGrid)
  /\ buttonGrid[i].kind = "video"
  /\ tracks' = [tracks EXCEPT ![myStream].video = ~@]
  /\ buttonGrid' = [buttonGrid EXCEPT ![i].label = VideoLabel(~tracks[myStream].video)]
  /\ UNCHANGED <<envVars, myStream, streamsAcquired, pending, mediaRequests,
                 alertOpen, videoConnected, networkVideoConnected, registryVars,
                 srcObject, videoGrid, startButton, otherVars>>

\* the click listener of the start button (lines 356-359)
StartButtonClickB ==
  /\ NoAlert
  /\ startButton
  /\ getUserMediaBodyB(TRUE)
  /\ startButton' = FALSE
  /\ UNCHANGED <<envVars, myStream, tracks, streamsAcquired, videoConnected,
                 networkVideoConnected, registryVars, srcObject, videoGrid,
                 buttonGrid, otherVars>>

NextB ==
  \/ \E alertOnError \in BOOLEAN : getUserMediaB(alertOnError)
  \/ \E alertOnError \in BOOLEAN : GetUserMediaResolvedB(alertOnError)
  \/ \E alertOnError \in BOOLEAN, errorName \in ErrorNames :
       GetUserMediaRejected(alertOnError, errorName)
  \/ \E i \in 1..2 : AudioButtonClickB(i)
  \/ \E i \in 1..2 : VideoButtonClickB(i)
  \/ StartButtonClickB
  \/ DismissAlert

SpecB == InitB /\ [][NextB]_vars

(***************************************************************************)
(* SpecV2: the second class of src/unnamed/part_000 (lines 225-454).  Its  *)
(* incoming-call handler closes a call that finds no local stream, and the *)
(* 'close' listener of a placed call runs deleteVideoStream(userId).       *)
(* closeEvents maps a placed call to the userId its 'close' listener has   *)
(* captured and to the state of its event: "listening" until the event is  *)
(* emitted, "emitted" until the listener has run.                          *)
(***************************************************************************)
InitV2 ==
  /\ isSecureContext = TRUE
  /\ hasMediaDevices \in BOOLEAN
  /\ startButton = FALSE
  /\ Constructed

\* mutant: the call is answered whether or not this.myStream is set
OnCallV2_NoStreamCheck(peer) ==
  /\ NoAlert
  /\ callsCreated < MaxCalls
  /\ callsCreated' = callsCreated + 1
  /\ IF peer \notin DOMAIN onCalledPeers
       THEN /\ calls' = MapSet(calls, callsCreated + 1,
                                MediaConnection("in", peer, myStream, TRUE))
            /\ onCalledPeers' = MapSet(onCalledPeers, peer, Entry(callsCreated + 1))
            /\ UNCHANGED closedCalls
       ELSE UNCHANGED <<calls, onCalledPeers, closedCalls>>
  /\ UNCHANGED <<envVars, mediaVars, peers, srcObject, videoGrid,
                 buttonGrid, startButton, otherVars>>

\* myPeer.on('call', ...) (lines 274-302)
OnCallV2(peer) ==
  /\ NoAlert
  /\ callsCreated < MaxCalls
  /\ callsCreated' = callsCreated + 1
  /\ IF peer \notin DOMAIN onCalledPeers
       THEN IF myStream = NoStream
              THEN /\ closedCalls' = closedCalls \cup {callsCreated + 1}
                   /\ UNCHANGED <<calls, onCalledPeers>>
              ELSE /\ calls' = MapSet(calls, callsCreated + 1,
                                      MediaConnection("in", peer, myStream, TRUE))
                   /\ onCalledPeers' =
                        MapSet(onCalledPeers, peer, Entry(callsCreated + 1))
                   /\ UNCHANGED closedCalls
       ELSE UNCHANGED <<calls, onCalledPeers, closedCalls>>
  /\ UNCHANGED <<envVars, mediaVars, peers, srcObject, videoGrid,
                 buttonGrid, startButton, otherVars>>

\* the constraints object of lines 317-327
ConstraintsV2 == [video |-> "ideal 1280x720", audio |-> "processed"]

\* getUserMedia(alertOnError) (lines 316-348); with navigator.mediaDevices
\* undefined the optional chain ends the whole expression
getUserMediaV2(alertOnError) ==
  /\ NoAlert
  /\ IF hasMediaDevices
       THEN /\ Len(mediaRequests) < MaxRequests
            /\ mediaRequests' = Append(mediaRequests, ConstraintsV2)
            /\ pending' = [pending EXCEPT ![alertOnError] = @ + 1]
       ELSE UNCHANGED <<mediaRequests, pending>>
  /\ UNCHANGED <<envVars, myStream, tracks, streamsAcquired, alertOpen,
                 videoConnected, networkVideoConnected, registryVars, srcObject,
                 videoGrid, buttonGrid, startButton, otherVars>>

\* setUpButtons() in the classes of part_000: two buttons are appended
setUpButtonsP ==
  IF ~hasButtonGrid THEN buttonGrid
  ELSE buttonGrid \o << [kind |-> "audio", label |-> "Mute"],
                        [kind |-> "video", label |-> "Video off"] >>

\* the .then callback (lines 331-338)
GetUserMediaResolvedV2(alertOnError) ==
  /\ NoAlert
  /\ pending[alertOnError] > 0
  /\ pending' = [pending EXCEPT ![alertOnError] = @ - 1]
  /\ streamsAcquired' = streamsAcquired + 1
  /\ myStream' = streamsAcquired + 1
  /\ tracks' = MapSet(EmptyMap, streamsAcquired + 1, NewStreamTracks)
  /\ srcObject' = addVideoStreamSrc(MyVideo, streamsAcquired + 1)
  /\ videoGrid' = addVideoStreamGrid(MyVideo)
  /\ buttonGrid' = setUpButtonsP
  /\ videoConnected' = TRUE
  /\ networkVideoConnected' = networkVideoConnected + 1
  /\ UNCHANGED <<envVars, mediaRequests, alertOpen, registryVars,
                 startButton, otherVars>>

\* the .catch callback (lines 339-347)
GetUserMediaRejectedV2(alertOnError) ==
  /\ NoAlert
  /\ pending[alertOnError] > 0
  /\ pending' = [pending EXCEPT ![alertOnError] = @ - 1]
  /\ alertOpen' = IF alertOnError THEN "failed" ELSE "none"
  /\ UNCHANGED <<envVars, myStream, tracks, streamsAcquired, mediaRequests,
                 videoConnected, networkVideoConnected, registryVars, srcObject,
                 videoGrid, buttonGrid, startButton, otherVars>>

\* connectToNewUser(userId) (lines 350-383)
connectToNewUserV2(userId) ==
  /\ NoAlert
  /\ IF myStream # NoStream
       THEN LET sanitizedId == replaceInvalidId(userId) IN
            IF sanitizedId \notin DOMAIN peers
              THEN /\ callsCreated < MaxCalls
                   /\ callsCreated' = callsCreated + 1
                   /\ calls' = MapSet(calls, callsCreated + 1,
                                  MediaConnection("out", sanitizedId, myStream, FALSE))
                   /\ peers' = MapSet(peers, sanitizedId, Entry(callsCreated + 1))
                   /\ closeEvents' = MapSet(closeEvents, callsCreated + 1,
                                        [userId |-> userId, state |-> "listening"])
              ELSE UNCHANGED <<calls, callsCreated, peers, closeEvents>>
       ELSE UNCHANGED <<calls, callsCreated, peers, closeEvents>>
  /\ UNCHANGED <<envVars, mediaVars, onCalledPeers, closedCalls, srcObject,
                 videoGrid, buttonGrid, startButton, sanVars, hasMediaDevices,
                 attempts, errorBoxes, waiting, timerTicks>>

\* call.close() on the call c, with the listeners and events ev: a
\* connection that was open emits 'close'; the library decides whether the
\* listener runs inside close() (and finds the entry it is to delete still
\* in place: the enclosing delete does the same work once) or later
EmitClose(ev, c) ==
  IF c \in DOMAIN ev /\ ev[c].state = "listening"
    THEN {MapDelete(ev, c), [ev EXCEPT ![c].state = "emitted"]}
    ELSE {ev}

\* the body of deleteVideoStream(userId) (lines 404-413), run with the
\* listeners and events ev
deleteVideoStreamBodyV2(userId, ev) ==
  LET sanitizedId == replaceInvalidId(userId) IN
  IF sanitizedId \in DOMAIN peers
    THEN LET peer == peers[sanitizedId] IN
         /\ CloseCall(peer.call)
         /\ closeEvents' \in EmitClose(ev, peer.call)
         /\ videoGrid' = DomRemove(videoGrid, peer.video)
         /\ srcObject' = MapDelete(srcObject, peer.video)
         /\ peers' = MapDelete(peers, sanitizedId)
    ELSE /\ closeEvents' = ev
         /\ UNCHANGED <<calls, closedCalls, videoGrid, srcObject, peers>>

\* what no delete of a placed call changes
DeleteFrameV2 ==
  UNCHANGED <<envVars, mediaVars, onCalledPeers, callsCreated, buttonGrid,
              startButton, sanVars, hasMediaDevices, attempts, errorBoxes,
              waiting, timerTicks>>

\* deleteVideoStream(userId), called by the game
deleteVideoStreamV2(userId) ==
  /\ NoAlert
  /\ deleteVideoStreamBodyV2(userId, closeEvents)
  /\ DeleteFrameV2

\* call.on('close', ...) of the placed call c (lines 375-378), for an event
\* emitted by an earlier call.close()
OnCloseV2(c) ==
  /\ NoAlert
  /\ c \in DOMAIN closeEvents
  /\ closeEvents[c].state = "emitted"
  /\ deleteVideoStreamBodyV2(closeEvents[c].userId, MapDelete(closeEvents, c))
  /\ DeleteFrameV2

\* the remote peer ends the open placed call c: 'close' is emitted and the
\* listener of lines 375-378 runs
RemoteCloseV2(c) ==
  /\ NoAlert
  /\ c \in DOMAIN calls
  /\ c \in DOMAIN closeEvents
  /\ closeEvents[c].state = "listening"
  /\ deleteVideoStreamBodyV2(closeEvents[c].userId, MapDelete(closeEvents, c))
  /\ DeleteFrameV2

NextV2 ==
  \/ \E peer \in UserIds : OnCallV2(peer)
  \/ \E alertOnError \in BOOLEAN : getUserMediaV2(alertOnError)
  \/ \E alertOnError \in BOOLEAN : GetUserMediaResolvedV2(alertOnError)
  \/ \E alertOnError \in BOOLEAN : GetUserMediaRejectedV2(alertOnError)
  \/ \E userId \in UserIds : connectToNewUserV2(userId)
  \/ \E c \in 1..MaxCalls : OnStream(c)
  \/ \E userId \in UserIds : deleteVideoStreamV2(userId)
  \/ \E userId \in UserIds : deleteOnCalledVideoStream(userId)
  \/ \E c \in 1..MaxCalls : OnCloseV2(c)
  \/ \E c \in 1..MaxCalls : RemoteCloseV2(c)
  \/ DismissAlert

SpecV2 == InitV2 /\ [][NextV2]_vars

(***************************************************************************)
(* SpecV3: the incoming side of the third class of src/unnamed/part_000    *)
(* (lines 461-635), whose 'call' handler polls for the local stream every  *)
(* 500 ms.  An incoming call that is not yet answered is an open           *)
(* connection with answered = FALSE; waiting holds the calls whose timer   *)
(* is armed.  The outgoing side of the class is that of the first class.   *)
(***************************************************************************)
InitV3 ==
  /\ isSecureContext = TRUE
  /\ hasMediaDevices \in BOOLEAN
  /\ startButton = FALSE
  /\ Constructed

\* mutant: the handler answers at once, as the other classes do
OnCallV3_NoWait(peer) ==
  /\ NoAlert
  /\ callsCreated < MaxCalls
  /\ callsCreated' = callsCreated + 1
  /\ calls' = MapSet(calls, callsCreated + 1,
                     MediaConnection("in", peer, myStream, TRUE))
  /\ onCalledPeers' = MapSet(onCalledPeers, peer, Entry(callsCreated + 1))
  /\ UNCHANGED <<envVars, mediaVars, peers, closedCalls, srcObject, videoGrid,
                 buttonGrid, startButton, otherVars>>

\* myPeer.on('call', ...) with the first run of waitForStream (lines 495-512)
OnCallV3(peer) ==
  /\ NoAlert
  /\ callsCreated < MaxCalls
  /\ callsCreated' = callsCreated + 1
  /\ IF myStream # NoStream
       THEN /\ calls' = MapSet(calls, callsCreated + 1,
                                MediaConnection("in", peer, myStream, TRUE))
            /\ onCalledPeers' = MapSet(onCalledPeers, peer, Entry(callsCreated + 1))
            /\ UNCHANGED waiting
       ELSE /\ calls' = MapSet(calls, callsCreated + 1,
                                MediaConnection("in", peer, NoStream, FALSE))
            /\ waiting' = waiting \cup {callsCreated + 1}
            /\ UNCHANGED onCalledPeers
  /\ UNCHANGED <<envVars, mediaVars, peers, closedCalls, srcObject, videoGrid,
                 buttonGrid, startButton, sanVars, hasMediaDevices, attempts,
                 errorBoxes, closeEvents, timerTicks>>

\* mutant: a run that finds no stream does not arm the timer again
WaitForStreamV3_NoRetry(c) ==
  /\ NoAlert
  /\ c \in waiting
  /\ waiting' = waiting \ {c}
  /\ IF myStream # NoStream
       THEN /\ calls' = [calls EXCEPT ![c].answered = TRUE, ![c].stream = myStream]
            /\ onCalledPeers' = MapSet(onCalledPeers, calls[c].peer, Entry(c))
       ELSE UNCHANGED <<calls, onCalledPeers>>
  /\ UNCHANGED <<envVars, mediaVars, peers, callsCreated, closedCalls, srcObject,
                 videoGrid, buttonGrid, startButton, sanVars, hasMediaDevices,
                 attempts, errorBoxes, closeEvents, timerTicks>>

\* setTimeout(waitForStream, 500) expires for the call c (lines 497-510)
WaitForStreamV3(c) ==
  /\ NoAlert
  /\ c \in waiting
  /\ IF myStream # NoStream
       THEN /\ calls' = [calls EXCEPT ![c].answered = TRUE, ![c].stream = myStream]
            /\ onCalledPeers' = MapSet(onCalledPeers, calls[c].peer, Entry(c))
            /\ waiting' = waiting \ {c}
            /\ UNCHANGED timerTicks
       ELSE /\ timerTicks < MaxTicks
            /\ timerTicks' = timerTicks + 1
            /\ UNCHANGED <<calls, onCalledPeers, waiting>>
  /\ UNCHANGED <<envVars, mediaVars, peers, callsCreated, closedCalls, srcObject,
                 videoGrid, buttonGrid, startButton, sanVars, hasMediaDevices,
                 attempts, errorBoxes, closeEvents>>

\* getUserMedia(alertOnError) (lines 526-547)
getUserMediaV3(alertOnError) ==
  /\ NoAlert
  /\ IF hasMediaDevices
       THEN /\ Len(mediaRequests) < MaxRequests
            /\ mediaRequests' = Append(mediaRequests, Constraints)
            /\ pending' = [pending EXCEPT ![alertOnError] = @ + 1]
       ELSE UNCHANGED <<mediaRequests, pending>>
  /\ UNCHANGED <<envVars, myStream, tracks, streamsAcquired, alertOpen,
                 videoConnected, networkVideoConnected, registryVars, srcObject,
                 videoGrid, buttonGrid, startButton, otherVars>>

\* the .then callback (lines 533-542)
GetUserMediaResolvedV3(alertOnError) ==
  /\ NoAlert
  /\ pending[alertOnError] > 0
  /\ pending' = [pending EXCEPT ![alertOnError] = @ - 1]
  /\ streamsAcquired' = streamsAcquired + 1
  /\ myStream' = streamsAcquired + 1
  /\ tracks' = MapSet(EmptyMap, streamsAcquired + 1, NewStreamTracks)
  /\ srcObject' = addVideoStreamSrc(MyVideo, streamsAcquired + 1)
  /\ videoGrid' = addVideoStreamGrid(MyVideo)
  /\ videoConnected' = TRUE
  /\ networkVideoConnected' = networkVideoConnected + 1
  /\ buttonGrid' = setUpButtonsP
  /\ UNCHANGED <<envVars, mediaRequests, alertOpen, registryVars,
                 startButton, otherVars>>

\* the .catch callback (lines 543-546)
GetUserMediaRejectedV3(alertOnError) ==
  /\ NoAlert
  /\ pending[alertOnError] > 0
  /\ pending' = [pending EXCEPT ![alertOnError] = @ - 1]
  /\ alertOpen' = IF alertOnError THEN "blocked" ELSE "none"
  /\ UNCHANGED <<envVars, myStream, tracks, streamsAcquired, mediaRequests,
                 videoConnected, networkVideoConnected, registryVars, srcObject,
                 videoGrid, buttonGrid, startButton, otherVars>>

NextV3 ==
  \/ \E peer \in UserIds : OnCallV3(peer)
  \/ \E c \in 1..MaxCalls : WaitForStreamV3(c)
  \/ \E alertOnError \in BOOLEAN : getUserMediaV3(alertOnError)
  \/ \E alertOnError \in BOOLEAN : GetUserMediaResolvedV3(alertOnError)
  \/ \E alertOnError \in BOOLEAN : GetUserMediaRejectedV3(alertOnError)
  \/ \E c \in 1..MaxCalls : OnStream(c)
  \/ \E userId \in UserIds : deleteOnCalledVideoStream(userId)
  \/ DismissAlert

SpecV3 == InitV3 /\ [][NextV3]_vars

\* the timers of the page keep firing and an open dialog is dismissed
FairnessV3 ==
  /\ WF_vars(DismissAlert)
  /\ \A c \in 1..MaxCalls : WF_vars(WaitForStreamV3(c))

SpecV3Fair == SpecV3 /\ FairnessV3

(***************************************************************************)
(* SpecV1: media acquisition, the error box and the buttons of the first   *)
(* class of src/unnamed/part_000 (lines 6-218).  attempts lists the calls  *)
(* of navigator.mediaDevices.getUserMedia in the order they were made:     *)
(* the alertOnError of the call, its origin ("user" for getUserMedia(),    *)
(* "check" for checkPreviousPermission(), "retry" for the Retry button)    *)
(* and its state.  errorBoxes lists the messages of the .media-error-box   *)
(* elements of the document, in document order.                            *)
(***************************************************************************)
InitV1 ==
  /\ isSecureContext = TRUE
  /\ hasMediaDevices \in BOOLEAN
  /\ startButton = FALSE
  /\ Constructed

\* getUserMedia(alertOnError) up to the request (lines 59-64); with
\* navigator.mediaDevices undefined the optional chain ends the expression
getUserMediaBodyV1(alertOnError, origin) ==
  IF hasMediaDevices
    THEN /\ Len(mediaRequests) < MaxRequests
         /\ mediaRequests' = Append(mediaRequests, Constraints)
         /\ pending' = [pending EXCEPT ![alertOnError] = @ + 1]
         /\ attempts' = Append(attempts, [alertOnError |-> alertOnError,
                                          origin |-> origin, state |-> "pending"])
    ELSE UNCHANGED <<mediaRequests, pending, attempts>>

\* what a call of getUserMedia leaves alone, but for the error boxes
RequestFrameV1 ==
  UNCHANGED <<envVars, myStream, tracks, streamsAcquired, alertOpen,
              videoConnected, networkVideoConnected, registryVars, srcObject,
              videoGrid, buttonGrid, startButton, sanVars, hasMediaDevices,
              closeEvents, waiting, timerTicks>>

\* getUserMedia(), called for the user with the default alertOnError
getUserMediaV1 ==
  /\ getUserMediaBodyV1(TRUE, "user")
  /\ UNCHANGED errorBoxes
  /\ RequestFrameV1

\* checkPreviousPermission() (lines 54-56)
checkPreviousPermissionV1 ==
  /\ getUserMediaBodyV1(FALSE, "check")
  /\ UNCHANGED errorBoxes
  /\ RequestFrameV1

\* the element at position i taken out of the list
RemoveAt(boxes, i) ==
  [j \in 1..(Len(boxes) - 1) |-> IF j < i THEN boxes[j] ELSE boxes[j + 1]]

\* retry.onclick of the box at position i (lines 125-128)
RetryClickV1(i) ==
  /\ i \in 1..Len(errorBoxes)
  /\ errorBoxes' = RemoveAt(errorBoxes, i)
  /\ getUserMediaBodyV1(FALSE, "retry")
  /\ RequestFrameV1

\* the .then callback of attempt i (lines 65-71)
GetUserMediaResolvedV1(i) ==
  /\ i \in 1..Len(attempts)
  /\ attempts[i].state = "pending"
  /\ attempts' = [attempts EXCEPT ![i].state = "succeeded"]
  /\ pending' = [pending EXCEPT ![attempts[i].alertOnError] = @ - 1]
  /\ streamsAcquired' = streamsAcquired + 1
  /\ myStream' = streamsAcquired + 1
  /\ tracks' = MapSet(EmptyMap, streamsAcquired + 1, NewStreamTracks)
  /\ srcObject' = addVideoStreamSrc(MyVideo, streamsAcquired + 1)
  /\ videoGrid' = addVideoStreamGrid(MyVideo)
  /\ buttonGrid' = setUpButtonsP
  /\ videoConnected' = TRUE
  /\ networkVideoConnected' = networkVideoConnected + 1
  /\ UNCHANGED <<envVars, mediaRequests, alertOpen, registryVars, startButton,
                 sanVars, hasMediaDevices, errorBoxes, closeEvents, waiting,
                 timerTicks>>

ErrorNamesV1 ==
  {"NotAllowedError", "NotFoundError", "NotReadableError",
   "OverconstrainedError", "AbortError"}

\* the switch of lines 76-94
MessageFor(errorName) ==
  CASE errorName = "NotAllowedError" -> "denied"
    [] errorName = "NotFoundError" -> "no device"
    [] errorName = "NotReadableError" -> "in use"
    [] errorName = "OverconstrainedError" -> "constraints"
    [] OTHER -> "unable"

\* showInlineError(message) (lines 101-132): the first existing box is
\* removed, a new one is appended to the body
showInlineError(boxes, message) ==
  Append(IF boxes # <<>> THEN Tail(boxes) ELSE boxes, message)

\* the .catch callback of attempt i (lines 72-97)
GetUserMediaRejectedV1(i, errorName) ==
  /\ i \in 1..Len(attempts)
  /\ attempts[i].state = "pending"
  /\ attempts' = [attempts EXCEPT ![i].state = "failed"]
  /\ pending' = [pending EXCEPT ![attempts[i].alertOnError] = @ - 1]
  /\ errorBoxes' = IF ~attempts[i].alertOnError THEN errorBoxes
                   ELSE showInlineError(errorBoxes, MessageFor(errorName))
  /\ UNCHANGED <<envVars, myStream, tracks, streamsAcquired, mediaRequests,
                 alertOpen, videoConnected, networkVideoConnected, registryVars,
                 srcObject, videoGrid, buttonGrid, startButton, sanVars,
                 hasMediaDevices, closeEvents, waiting, timerTicks>>

\* the click listener of the audio button at position i (lines 187-198)
AudioButtonClickV1(i) ==
  /\ i \in 1..Len(buttonGrid)
  /\ buttonGrid[i].kind = "audio"
  /\ IF myStream # NoStream
       THEN IF tracks[myStream].audio
              THEN /\ tracks' = [tracks EXCEPT ![myStream].audio = FALSE]
                   /\ buttonGrid' = [buttonGrid EXCEPT ![i].label = "Unmute"]
              ELSE /\ tracks' = [tracks EXCEPT ![myStream].audio = TRUE]
                   /\ buttonGrid' = [buttonGrid EXCEPT ![i].label = "Mute"]
       ELSE UNCHANGED <<tracks, buttonGrid>>
  /\ UNCHANGED <<envVars, myStream, streamsAcquired, pending, mediaRequests,
                 alertOpen, videoConnected, networkVideoConnected, registryVars,
                 srcObject, videoGrid, startButton, otherVars>>

\* the click listener of the video button at position i (lines 202-213)
VideoButtonClickV1(i) ==
  /\ i \in 1..Len(buttonGrid)
  /\ buttonGrid[i].kind = "video"
  /\ IF myStream # NoStream
       THEN IF tracks[myStream].video
              THEN /\ tracks' = [tracks EXCEPT ![myStream].video = FALSE]
                   /\ buttonGrid' = [buttonGrid EXCEPT ![i].label = "Video on"]
              ELSE /\ tracks' = [tracks EXCEPT ![myStream].video = TRUE]
                   /\ buttonGrid' = [buttonGrid EXCEPT ![i].label = "Video off"]
       ELSE UNCHANGED <<tracks, buttonGrid>>
  /\ UNCHANGED <<envVars, myStream, streamsAcquired, pending, mediaRequests,
                 alertOpen, videoConnected, networkVideoConnected, registryVars,
                 srcObject, videoGrid, startButton, otherVars>>

NextV1 ==
  \/ getUserMediaV1
  \/ checkPreviousPermissionV1
  \/ \E i \in 1..MaxRequests : RetryClickV1(i)
  \/ \E i \in 1..MaxRequests : GetUserMediaResolvedV1(i)
  \/ \E i \in 1..MaxRequests, errorName \in ErrorNamesV1 :
       GetUserMediaRejectedV1(i, errorName)
  \/ \E i \in 1..(2 * MaxRequests) : AudioButtonClickV1(i)
  \/ \E i \in 1..(2 * MaxRequests) : VideoButtonClickV1(i)

SpecV1 == InitV1 /\ [][NextV1]_vars

(***************************************************************************)
(* Properties.                                                             *)
(***************************************************************************)
\* the identifier characters [0-9A-Za-z]
AllowedChars == Digits \cup LowerCase \cup UpperCase

OnlyAllowedChars(id) == \A i \in 1..Len(id) : id[i] \in AllowedChars

\* C1: replaceInvalidId keeps the length of its input, keeps every character
\* of [0-9A-Za-z] at its position, replaces every other character by 'G', so
\* that its result holds characters of [0-9A-Za-z] only; sanitizing a
\* sanitized identifier returns it unchanged.
C1_SanitizedId ==
  /\ sanPc \in {"sanitized", "resanitized"} =>
       /\ Len(sanOut) = Len(sanIn)
       /\ \A i \in 1..Len(sanIn) :
            sanOut[i] = IF sanIn[i] \in AllowedChars THEN sanIn[i] ELSE "G"
       /\ OnlyAllowedChars(sanOut)
  /\ sanPc = "resanitized" => sanAgain = sanOut

\* an identifier with an upper-case letter, a lower-case letter and two
\* characters outside [0-9A-Za-z], one of them non-ASCII, sanitized twice
C1_Witness ==
  /\ sanPc = "resanitized"
  /\ sanIn = <<"Z", "U+017F", "-">>
  /\ sanOut = <<"Z", "G", "G">>

\* a media request for audio only
AudioOnly == [video |-> FALSE, audio |-> TRUE]

MediaAlerts == {"allow", "notFound", "blocked"}

PendingRequests == pending[TRUE] + pending[FALSE]

RejectedStep ==
  \E alertOnError \in BOOLEAN, errorName \in ErrorNames :
    GetUserMediaRejected(alertOnError, errorName)

\* C2 (as claimed): a failure of the request for video and audio is reported
\* only after a second request, for audio only, has been made.
C2_FallbackBeforeFailure ==
  alertOpen \in MediaAlerts =>
    \E i \in 1..Len(mediaRequests) : mediaRequests[i] = AudioOnly

\* C2 (amended): every media request asks for video and audio, and a failed
\* request is followed by no further request: the rejection handler issues
\* none, leaves myStream and the connected reports as they were, and only
\* reports the failure.
C2_NoFallback ==
  [][ /\ \A i \in 1..Len(mediaRequests') : mediaRequests'[i] = Constraints
      /\ RejectedStep =>
           /\ mediaRequests' = mediaRequests
           /\ PendingRequests' = PendingRequests - 1
           /\ UNCHANGED <<myStream, videoConnected, networkVideoConnected>> ]_vars

\* a failed request has been reported to the user, and no request is pending
C2_Witness ==
  /\ alertOpen \in MediaAlerts
  /\ Len(mediaRequests) = 1
  /\ PendingRequests = 0
  /\ myStream = NoStream

\* 'video connected' has been reported to the store or to the network
ReportedConnected == videoConnected \/ networkVideoConnected > 0

\* C3: 'video connected' is reported only if myStream is set; a failed
\* getUserMedia attempt leaves myStream unchanged and reports nothing as
\* connected; once myStream is set no operation unsets it.
C3_ReportedOnlyWithStream ==
  [][ /\ ReportedConnected => myStream # NoStream
      /\ ReportedConnected' => myStream' # NoStream
      /\ RejectedStep => UNCHANGED <<myStream, videoConnected, networkVideoConnected>>
      /\ myStream # NoStream => myStream' # NoStream ]_vars

\* a request has failed after an earlier one had succeeded and been reported
C3_Witness ==
  /\ alertOpen \in MediaAlerts
  /\ myStream # NoStream
  /\ videoConnected
  /\ networkVideoConnected = 1

\* C4 (as claimed): every key of peers and of onCalledPeers consists of
\* characters of [0-9A-Za-z] only.
C4_KeysSanitized ==
  \A k \in DOMAIN peers \cup DOMAIN onCalledPeers : OnlyAllowedChars(k)

\* the open connections placed to (dir = "out") or answered from (dir = "in")
\* the peer id
LiveCalls(dir, id) ==
  {c \in DOMAIN calls : calls[c].dir = dir /\ calls[c].peer = id}

AtMostOneLiveCall ==
  /\ \A id \in DOMAIN peers : LiveCalls("out", id) = {peers[id].call}
  /\ \A id \in DOMAIN onCalledPeers : LiveCalls("in", id) = {onCalledPeers[id].call}
  /\ \A c \in DOMAIN calls :
       IF calls[c].dir = "out" THEN calls[c].peer \in DOMAIN peers
       ELSE calls[c].peer \in DOMAIN onCalledPeers

\* C5: each registry maps a peer id to exactly one live connection:
\* connectToNewUser for an id that has an entry in peers places no call and
\* leaves the entry unchanged, an incoming call from a peer that has an entry
\* in onCalledPeers is not answered and leaves the entry unchanged, and the
\* calls placed (answered) for an id and not yet removed are at most one.
C5_OneLiveCallPerId ==
  [][ /\ AtMostOneLiveCall
      /\ AtMostOneLiveCall'
      /\ \A userId \in UserIds :
           replaceInvalidId(userId) \in DOMAIN peers /\ connectToNewUser(userId)
             => UNCHANGED <<peers, calls, callsCreated>>
      /\ \A peer \in UserIds :
           OnCall(peer) /\ peer \in DOMAIN onCalledPeers
             => UNCHANGED <<onCalledPeers, peers, calls>> ]_vars

\* a second incoming call of a registered peer was received and not answered,
\* after its first call had been closed and a new one answered
C5_Witness ==
  /\ callsCreated = 2
  /\ DOMAIN calls = {1}
  /\ closedCalls = {}
  /\ DOMAIN onCalledPeers = {<<"a", "7">>}

\* replaceInvalidId on the user ids of the model
SanitizedId == [userId \in UserIds |-> replaceInvalidId(userId)]

\* the round trip of the claim on the content of peers: connectToNewUser
\* (userId) followed by deleteVideoStream(userId)
ConnectThenDelete(userId) ==
  deleteVideoStreamPeers(
    connectToNewUserPeers(peers, myStream, callsCreated, userId), userId)

\* C6 (as claimed): connectToNewUser(userId) followed by deleteVideoStream
\* (userId) with the same raw id restores peers to its previous content.
C6_RoundTripRestoresPeers ==
  \A userId \in UserIds : ConnectThenDelete(userId) = peers

\* what a delete does to the entry e it finds: the call closed, the video
\* out of the grid
EntryRemoved(e) ==
  /\ e.call \in closedCalls'
  /\ e.call \notin DOMAIN calls'
  /\ Count(videoGrid', e.video) = 0

\* C6 (amended): deleteVideoStream(userId) removes the entry of the sanitized
\* id from peers, closes its call and takes its video out of the grid, and
\* changes nothing when there is no entry; deleteOnCalledVideoStream does the
\* same for onCalledPeers; connectToNewUser(userId) followed by
\* deleteVideoStream(userId) restores peers to its previous content whenever
\* the sanitized id had no entry before the two calls.
C6_DeleteRemovesEntry ==
  [][ \A userId \in UserIds :
        LET id == SanitizedId[userId] IN
        /\ deleteVideoStream(userId)
             => IF id \in DOMAIN peers
                  THEN id \notin DOMAIN peers' /\ EntryRemoved(peers[id])
                  ELSE UNCHANGED vars
        /\ deleteOnCalledVideoStream(userId)
             => IF id \in DOMAIN onCalledPeers
                  THEN id \notin DOMAIN onCalledPeers' /\ EntryRemoved(onCalledPeers[id])
                  ELSE UNCHANGED vars
        /\ id \notin DOMAIN peers => ConnectThenDelete(userId) = peers ]_vars

\* a call was placed, delivered its stream and was removed again
C6_Witness ==
  /\ myStream # NoStream
  /\ callsCreated = 1
  /\ closedCalls = {1}
  /\ peers = EmptyMap
  /\ videoGrid = DomAppend(EmptyMap, MyVideo)
  /\ \E userId \in UserIds : connectToNewUserPeers(peers, myStream, callsCreated, userId) # peers

\* the entry e of a registry, its call and its video are as they were
EntryUntouched(registry, id) ==
  LET e == registry[id] IN
  /\ e.call \in DOMAIN calls'
  /\ calls'[e.call] = calls[e.call]
  /\ Count(videoGrid', e.video) = Count(videoGrid, e.video)

\* C7: deleteVideoStream and connectToNewUser never change onCalledPeers or
\* myStream, deleteOnCalledVideoStream and the incoming-call handler never
\* change peers or myStream, and a delete for one id leaves the entries,
\* calls and video elements of every other id untouched.
C7_RegistriesIndependent ==
  [][ \A userId \in UserIds :
        LET id == SanitizedId[userId] IN
        /\ deleteVideoStream(userId)
             => /\ UNCHANGED <<onCalledPeers, myStream>>
                /\ \A k \in DOMAIN onCalledPeers : EntryUntouched(onCalledPeers, k)
                /\ \A k \in DOMAIN peers \ {id} :
                     /\ k \in DOMAIN peers'
                     /\ peers'[k] = peers[k]
                     /\ EntryUntouched(peers, k)
        /\ connectToNewUser(userId)
             => /\ UNCHANGED <<onCalledPeers, myStream>>
                /\ \A k \in DOMAIN onCalledPeers : EntryUntouched(onCalledPeers, k)
        /\ deleteOnCalledVideoStream(userId)
             => /\ UNCHANGED <<peers, myStream>>
                /\ \A k \in DOMAIN peers : EntryUntouched(peers, k)
                /\ \A k \in DOMAIN onCalledPeers \ {id} :
                     /\ k \in DOMAIN onCalledPeers'
                     /\ onCalledPeers'[k] = onCalledPeers[k]
                     /\ EntryUntouched(onCalledPeers, k)
        /\ OnCall(userId)
             => /\ UNCHANGED <<peers, myStream>>
                /\ \A k \in DOMAIN peers : EntryUntouched(peers, k) ]_vars

\* the second of two connections was removed by a delete while the first,
\* of another id, is still registered with its video in the grid
C7_Witness ==
  /\ callsCreated = 2
  /\ closedCalls = {2}
  /\ DOMAIN calls = {1}
  /\ Count(videoGrid, 1) = 1
  /\ DOMAIN peers \cup DOMAIN onCalledPeers # {}

\* the labels of the buttons agree with the tracks of the local stream
ButtonsBound ==
  \A i \in 1..Len(buttonGrid) :
    /\ myStream # NoStream
    /\ buttonGrid[i].kind = "audio" =>
         /\ buttonGrid[i].label \in {"Mute", "Unmute"}
         /\ buttonGrid[i].label = "Mute" <=> tracks[myStream].audio
    /\ buttonGrid[i].kind = "video" =>
         /\ buttonGrid[i].label \in {"Video Off", "Video On"}
         /\ buttonGrid[i].label = "Video Off" <=> tracks[myStream].video

\* C8: each audio click flips only the enabled flag of the first audio
\* track, each video click only that of the first video track; the audio
\* button reads 'Mute' exactly when the audio track is enabled (else
\* 'Unmute'), the video button 'Video Off' exactly when the video track is
\* enabled (else 'Video On'); two clicks on a button restore tracks and label.
C8_ButtonsFollowTracks ==
  [][ /\ ButtonsBound
      /\ ButtonsBound'
      /\ \A i \in 1..Len(buttonGrid) :
           /\ AudioButtonClick(i) =>
                /\ tracks'[myStream].audio = ~tracks[myStream].audio
                /\ tracks'[myStream].video = tracks[myStream].video
                /\ \A j \in 1..Len(buttonGrid) \ {i} : buttonGrid'[j] = buttonGrid[j]
           /\ VideoButtonClick(i) =>
                /\ tracks'[myStream].video = ~tracks[myStream].video
                /\ tracks'[myStream].audio = tracks[myStream].audio
                /\ \A j \in 1..Len(buttonGrid) \ {i} : buttonGrid'[j] = buttonGrid[j]
           /\ buttonGrid[i].kind = "audio" =>
                /\ AudioClickTracks(AudioClickTracks(tracks, myStream), myStream) = tracks
                /\ AudioClickButtons(
                     AudioClickButtons(buttonGrid, tracks, myStream, i),
                     AudioClickTracks(tracks, myStream), myStream, i) = buttonGrid
           /\ buttonGrid[i].kind = "video" =>
                /\ VideoClickTracks(VideoClickTracks(tracks, myStream), myStream) = tracks
                /\ VideoClickButtons(
                     VideoClickButtons(buttonGrid, tracks, myStream, i),
                     VideoClickTracks(tracks, myStream), myStream, i) = buttonGrid ]_vars

\* the audio button was clicked once and the video button was not
C8_Witness ==
  /\ Len(buttonGrid) = 2
  /\ buttonGrid[1] = [kind |-> "audio", label |-> "Unmute"]
  /\ buttonGrid[2] = [kind |-> "video", label |-> "Video Off"]
  /\ tracks[myStream] = [audio |-> FALSE, video |-> TRUE]

\* the video elements of the registries' entries
EntryVideos ==
  {peers[k].video : k \in DOMAIN peers}
    \cup {onCalledPeers[k].video : k \in DOMAIN onCalledPeers}

\* C9: a remote peer's video element is in the video grid only after its
\* call has delivered a stream; however often the 'stream' event fires for a
\* call, the grid holds at most one video element for its registry entry,
\* and at most one for the local self-view.
C9_OneVideoPerEntry ==
  /\ \A v \in DOMAIN videoGrid :
       /\ videoGrid[v] = 1
       /\ v # MyVideo => v \in EntryVideos /\ v \in DOMAIN calls /\ calls[v].streams > 0
       /\ v = MyVideo => myStream # NoStream
  /\ \A v \in EntryVideos \cup {MyVideo} : Count(videoGrid, v) <= 1

\* a call has delivered two 'stream' events, and two local streams were shown
C9_Witness ==
  /\ streamsAcquired = 2
  /\ Count(videoGrid, MyVideo) = 1
  /\ \E c \in DOMAIN calls : calls[c].streams = 2 /\ Count(videoGrid, c) = 1

\* the connections placed by myPeer.call that are open
PlacedCalls == {c \in DOMAIN calls : calls[c].dir = "out"}

\* C10: while myStream is unset connectToNewUser(userId) invokes no peer
\* call, creates no video element in the grid and leaves peers unchanged; a
\* later connectToNewUser(userId), after the stream is acquired, places the
\* call with that stream.
C10_NoCallBeforeStream ==
  [][ /\ myStream = NoStream => peers = EmptyMap /\ PlacedCalls = {}
      /\ \A userId \in UserIds :
           LET id == SanitizedId[userId] IN
           /\ connectToNewUser(userId) /\ myStream = NoStream
                => UNCHANGED <<peers, calls, callsCreated, videoGrid, srcObject>>
           /\ connectToNewUser(userId) /\ myStream # NoStream /\ id \notin DOMAIN peers
                => /\ id \in DOMAIN peers'
                   /\ peers'[id].call \notin DOMAIN calls
                   /\ calls'[peers'[id].call] =
                        MediaConnection("out", id, myStream, FALSE)
           /\ (myStream # NoStream /\ NoAlert /\ id \notin DOMAIN peers
                 /\ callsCreated < MaxCalls)
                => ENABLED connectToNewUser(userId) ]_vars

\* the stream was acquired and a call placed with it
C10_Witness ==
  /\ myStream # NoStream
  /\ \E k \in DOMAIN peers :
       calls[peers[k].call] = MediaConnection("out", k, myStream, FALSE)

\* C15 (as claimed): the start button is out of the document only when the
\* media request started by its click has succeeded; while that request is
\* in flight the button may already be hidden, but after a failed or a
\* refused request it is available again.
C15_StartButtonUntilGranted ==
  (~startButton /\ pending[TRUE] = 0) => myStream # NoStream

\* the two toggle buttons as setUpButtons creates them
InitialButtons ==
  << [kind |-> "audio", label |-> "Mute"],
     [kind |-> "video", label |-> "Video Off"] >>

\* C16: after every successful getUserMedia completion the button grid holds
\* exactly one audio and one video toggle button with their initial labels
\* 'Mute' and 'Video Off'; while a stream is held the grid holds exactly
\* these two buttons, and a click acts on the stream acquired last.
C16_ButtonsReplaced ==
  [][ /\ \A alertOnError \in BOOLEAN :
           GetUserMediaResolved(alertOnError) \/ GetUserMediaResolvedB(alertOnError)
             => /\ buttonGrid' = InitialButtons
                /\ myStream' = streamsAcquired'
                /\ tracks'[myStream'] = NewStreamTracks
      /\ myStream' # NoStream
           => /\ Len(buttonGrid') = 2
              /\ buttonGrid'[1].kind = "audio"
              /\ buttonGrid'[2].kind = "video"
      /\ \A i \in 1..Len(buttonGrid) :
           /\ AudioButtonClick(i) \/ AudioButtonClickB(i)
                => /\ myStream = streamsAcquired
                   /\ tracks'[streamsAcquired].audio = ~tracks[streamsAcquired].audio
           /\ VideoButtonClick(i) \/ VideoButtonClickB(i)
                => /\ myStream = streamsAcquired
                   /\ tracks'[streamsAcquired].video = ~tracks[streamsAcquired].video ]_vars

\* a second stream was acquired and replaced the buttons of the first, and
\* the video button of the new grid was clicked
C16_Witness ==
  /\ streamsAcquired = 2
  /\ myStream = 2
  /\ Len(buttonGrid) = 2
  /\ buttonGrid[2].label = "Video On"

\* getUserMedia refuses to run in this environment
Refused == ~hasMediaDevices \/ ~isSecureContext

\* C17: outside a secure context, and when navigator.mediaDevices is not
\* available, no media request is issued, myStream stays unset, no toggle
\* button is created and 'video connected' is reported neither to the store
\* nor to the network.
C17_RefusedOutsideSecureContext ==
  Refused =>
    /\ mediaRequests = <<>>
    /\ pending = [a \in BOOLEAN |-> 0]
    /\ myStream = NoStream
    /\ buttonGrid = <<>>
    /\ ~videoConnected
    /\ networkVideoConnected = 0

\* getUserMedia was called from the start button outside a secure context
C17_Witness ==
  /\ ~isSecureContext
  /\ hasMediaDevices
  /\ ~startButton
  /\ alertOpen = "https"

\* the incoming calls that were answered and are open
AnsweredCalls == {c \in DOMAIN calls : calls[c].dir = "in" /\ calls[c].answered}

\* C11: an incoming call of a peer that is not in onCalledPeers, arriving
\* while myStream is unset, is closed, is not answered and adds no entry to
\* onCalledPeers; every call that is answered is answered with the local
\* stream acquired by then.
C11_NoAnswerWithoutStream ==
  [][ /\ \A peer \in UserIds :
           OnCallV2(peer) /\ peer \notin DOMAIN onCalledPeers
             => IF myStream = NoStream
                  THEN /\ callsCreated' \in closedCalls'
                       /\ callsCreated' \notin DOMAIN calls'
                       /\ AnsweredCalls' = AnsweredCalls
                       /\ onCalledPeers' = onCalledPeers
                  ELSE /\ callsCreated' \in AnsweredCalls'
                       /\ calls'[callsCreated'].stream = myStream
                       /\ onCalledPeers'[peer].call = callsCreated'
      /\ \A c \in AnsweredCalls' :
           /\ calls'[c].stream # NoStream
           /\ calls'[c].stream \in 1..streamsAcquired' ]_vars

\* one incoming call was closed for want of a stream, and the next call of
\* the same peer, after the stream was acquired, was answered with it
C11_Witness ==
  /\ callsCreated = 2
  /\ 1 \in closedCalls
  /\ myStream # NoStream
  /\ 2 \in AnsweredCalls
  /\ calls[2].stream = myStream
  /\ \E peer \in DOMAIN onCalledPeers : onCalledPeers[peer].call = 2

\* C18 (as claimed): the 'close' event of a placed call removes only that
\* call's own registry entry: when the event of call c is handled, the
\* entry, the call and the video registered for any other call stay
\* registered and open.
C18_CloseRemovesOwnEntryOnly ==
  [][ \A c \in 1..MaxCalls :
        OnCloseV2(c) \/ RemoteCloseV2(c)
          => \A k \in DOMAIN peers :
               peers[k].call # c
                 => /\ k \in DOMAIN peers'
                    /\ peers'[k] = peers[k]
                    /\ peers[k].call \in DOMAIN calls'
                    /\ Count(videoGrid', peers[k].video)
                         = Count(videoGrid, peers[k].video) ]_vars

\* C12: whatever the interleaving of incoming calls, timer expiries and the
\* completion of getUserMedia, no incoming call is answered or registered in
\* onCalledPeers while myStream is unset, and no step taken without a
\* stream answers or registers one.
C12_NoAnswerBeforeStream ==
  [][ /\ myStream' = NoStream
           => /\ AnsweredCalls' = {}
              /\ onCalledPeers' = EmptyMap
      /\ myStream = NoStream
           => /\ AnsweredCalls' = AnsweredCalls
              /\ onCalledPeers' = onCalledPeers
      /\ \A c \in AnsweredCalls' : calls'[c].stream # NoStream ]_vars

\* two calls wait for the stream, a timer has expired without finding one,
\* and the request for the stream is still in flight
C12_Witness ==
  /\ myStream = NoStream
  /\ waiting = {1, 2}
  /\ timerTicks > 0
  /\ pending # [a \in BOOLEAN |-> 0]

\* the incoming call c has been received and not yet answered
Unanswered(c) == c \in DOMAIN calls /\ calls[c].dir = "in" /\ ~calls[c].answered

\* the incoming call c has been answered with a stream (and has possibly
\* been closed again by deleteOnCalledVideoStream)
Answered(c) ==
  \/ c \in AnsweredCalls /\ calls[c].stream # NoStream
  \/ c \in closedCalls

\* C13: with the timers firing, every incoming call that was received
\* before the local stream was ready is answered, and registered in
\* onCalledPeers by the step that answers it, once getUserMedia has
\* succeeded; the timer of a call is armed only while the call is
\* unanswered, and is not armed again once it has been answered.
C13_WaitingCallsAnswered ==
  /\ \A c \in 1..MaxCalls : (Unanswered(c) /\ myStream # NoStream) ~> Answered(c)
  /\ [][ \A c \in 1..MaxCalls :
           /\ Unanswered(c) <=> c \in waiting
           /\ Unanswered(c) /\ ~Unanswered(c)'
                => /\ c \in AnsweredCalls'
                   /\ c \notin waiting'
                   /\ onCalledPeers'[calls[c].peer] = Entry(c)
           /\ c \in 1..callsCreated /\ c \notin waiting => c \notin waiting' ]_vars

\* the first call waited through a timer expiry and was answered with the
\* stream acquired later
C13_Witness ==
  /\ timerTicks > 0
  /\ waiting = {}
  /\ callsCreated = 1
  /\ 1 \in AnsweredCalls
  /\ calls[1].stream = myStream
  /\ myStream # NoStream

\* the attempts made on behalf of the user: getUserMedia() and the Retry
\* button
UserAttempts == {i \in 1..Len(attempts) : attempts[i].origin \in {"user", "retry"}}

\* the latest attempt made on behalf of the user has failed
LatestUserAttemptFailed ==
  /\ UserAttempts # {}
  /\ LET last == CHOOSE i \in UserAttempts : \A j \in UserAttempts : j <= i
     IN attempts[last].state = "failed"

\* C14 (as claimed): in every state where the local stream is not acquired
\* and the latest attempt made on behalf of the user, the Retry button's
\* included, has failed, an error box with its Retry button is in the
\* document; at most one error box exists at any time.
C14_RetryAvailable ==
  /\ Len(errorBoxes) <= 1
  /\ (myStream = NoStream /\ LatestUserAttemptFailed) => Len(errorBoxes) = 1

\* C19 (as claimed): every audio toggle button of the grid shows 'Mute'
\* exactly when the audio track of the current local stream is enabled, and
\* every video toggle button 'Video off' exactly when its video track is
\* enabled.
C19_LabelsFollowTracks ==
  \A i \in 1..Len(buttonGrid) :
    /\ buttonGrid[i].kind = "audio"
         => (buttonGrid[i].label = "Mute" <=> tracks[myStream].audio)
    /\ buttonGrid[i].kind = "video"
         => (buttonGrid[i].label = "Video off" <=> tracks[myStream].video)

=============================================================================
